---- MODULE Spec2Model ----
(***************************************************************************)
(* Model of riemann-docker-agent (src/main.go): the event pipeline         *)
(*   docker callback -> dockerEventsChan -> eventTransformer               *)
(*     -> riemannEventsChan <- heartbeatGenerator                          *)
(*     riemannEventsChan -> riemannSender -> riemann                       *)
(*                                                                         *)
(* Strings are sequences of tokens; the path separator "/" is always a     *)
(* token of its own.  Pointers to heap objects that are written once are   *)
(* modelled by the value; the heartbeat event, which is written on every   *)
(* tick through a pointer that is also on the channel, is the variable hb  *)
(* and channel items refer to it by name.  The field gid and the variables *)
(* listed under "history" record what happened; the program never reads    *)
(* them (ginfo is the DockerEventInfo a record was rendered from).  The    *)
(* variable env holds how many events and failures the docker   *)
(* daemon and the sink produce in the run.                                 *)
(***************************************************************************)
EXTENDS Integers, Sequences, FiniteSets, TLC

\* ------------------------------------------------------------------ bounds
MaxEvents == 1       \* docker events delivered to the callback in a pipeline run
ChanCap == 2         \* capacity of both channels in the model (10000 in the code)
MaxTime == 2         \* the clock runs 0..MaxTime seconds
MaxTtl == 4          \* --hb-ttl ranges over 0..MaxTtl (whole seconds)
MaxSendFails == 1    \* client.Send errors the sink produces in a pipeline run
MaxDialFails == 1    \* raidman.Dial errors the sink produces in a pipeline run

\* ------------------------------------------------------- program constants
MaxConnectAttempts == 10

\* ----------------------------------------------------------------- strings
Empty == << >>
None == [none |-> TRUE]
EmptyMap == [k \in {} |-> << >>]

DestroyStatus == "destroy"
Statuses == {"destroy", "start"}
ContainerIds == {<<"c1">>, <<"c2">>}
ImageName == <<"ubuntu">>
EventTime == 1433330370

\* Names InspectContainer may report (ContainerInfo.Name).
InfoNames ==
  {Empty, <<"/", "web">>, <<"web", "/", "b">>, <<"/">>,
   <<"/", "web", "/", "b">>, <<"web", "/">>}

RECURSIVE IndexOf(_, _, _)
\* Index of the first occurrence of tok in s at or after position k, 0 if none.
IndexOf(s, tok, k) ==
  IF k > Len(s) THEN 0
  ELSE IF s[k] = tok THEN k ELSE IndexOf(s, tok, k + 1)

\* strings.Replace(s, old, "", 1): the first occurrence of old removed.
ReplaceFirst(s, old) ==
  LET k == IndexOf(s, old, 1)
  IN IF k = 0 THEN s ELSE SubSeq(s, 1, k - 1) \o SubSeq(s, k + 1, Len(s))

RECURSIVE Pow2(_)
\* math.Pow(2, float64(i)) for the small i of the connect loop.
Pow2(i) == IF i = 0 THEN 1 ELSE 2 * Pow2(i - 1)

\* Conversion of a float to time.Duration: truncation toward zero.
TruncHalf(x) == IF x >= 0 THEN x \div 2 ELSE -((-x) \div 2)

\* ------------------------------------------------------------ docker side
\* dockerclient.ContainerInfo: Name, and Config (a pointer, nil in the zero value).
EmptyContainerInfo == [Name |-> Empty, Config |-> "nil"]
InspectOk(name) == [Name |-> name, Config |-> "set"]

\* Outcomes of dockerClient.InspectContainer: an error, or the info of a
\* container with one of the given names.
InspectOutcomes(names) ==
  {[err |-> TRUE, info |-> EmptyContainerInfo]}
  \cup {[err |-> FALSE, info |-> InspectOk(n)] : n \in names}

\* ---------------------------------------------------------------- templates
\* A template is a sequence of parts; a part is [lit |-> token] or [field |-> name].
Lit(t) == [lit |-> t]
Field(f) == [field |-> f]
IsLit(p) == "lit" \in DOMAIN p

\* Evaluation of one field reference against a DockerEventInfo:
\* [err |-> BOOLEAN, out |-> string].  A reference through the nil Config pointer
\* and a reference to a field the struct does not have are execution errors.
EvalField(f, info) ==
  CASE f = "Host" -> [err |-> FALSE, out |-> info.Host]
    [] f = "ContainerId" -> [err |-> FALSE, out |-> info.ContainerId]
    [] f = "Status" -> [err |-> FALSE, out |-> <<info.Status>>]
    [] f = "Image" -> [err |-> FALSE, out |-> info.Image]
    [] f = "Name" -> [err |-> FALSE, out |-> info.Name]
    [] f = "ContainerInfo.Name" -> [err |-> FALSE, out |-> info.ContainerInfo.Name]
    [] f = "ContainerInfo.Config.Image" ->
         IF info.ContainerInfo.Config = "nil"
         THEN [err |-> TRUE, out |-> Empty]
         ELSE [err |-> FALSE, out |-> info.Image]
    [] OTHER -> [err |-> TRUE, out |-> Empty]

RECURSIVE Execute(_, _, _)
\* tpl.Execute from part k on: [err, out].
Execute(tpl, info, k) ==
  IF k > Len(tpl) THEN [err |-> FALSE, out |-> Empty]
  ELSE LET head == IF IsLit(tpl[k]) THEN [err |-> FALSE, out |-> <<tpl[k].lit>>]
                   ELSE EvalField(tpl[k].field, info)
       IN IF head.err THEN [err |-> TRUE, out |-> Empty]
          ELSE LET rest == Execute(tpl, info, k + 1)
               IN [err |-> rest.err, out |-> head.out \o rest.out]

\* execTemplate: the empty string on an execution error.
execTemplate(tpl, info) ==
  LET r == Execute(tpl, info, 1)
  IN IF r.err THEN Empty ELSE r.out

\* ------------------------------------------------------------ configuration
HostName == <<"my.host">>

\* Two EventConfigs the flags can produce (templates already compiled).
EventConfigs ==
  { [Host |-> HostName,
     Service |-> <<Lit("docker "), Field("Name"), Lit(" "), Field("Status")>>,
     Description |-> <<Lit("container "), Field("Name")>>,
     State |-> <<Field("Status")>>,
     Tags |-> << >>,
     Attributes |-> EmptyMap,
     Metric |-> 0,
     Ttl |-> 60],
    [Host |-> HostName,
     Service |-> <<Lit("docker "), Field("Name")>>,
     Description |-> <<Field("ContainerInfo.Config.Image")>>,
     State |-> <<Field("Status")>>,
     Tags |-> << <<Lit("docker")>>, <<Field("Missing")>>, <<Lit("docker")>> >>,
     Attributes |-> [k \in {"docker-host", "img"} |->
                       IF k = "img" THEN <<Field("ContainerInfo.Config.Image")>>
                       ELSE <<Field("Host")>>],
     Metric |-> 1,
     Ttl |-> 60] }

HbServices == {Empty, <<"riemann-docker-agent">>}

\* The command line: what main() parses before it starts the pipeline.
Flags ==
  [ec : EventConfigs, hbService : HbServices, hbTtl : 0..MaxTtl, urlOk : BOOLEAN]

\* The runs explored: a command line, and what the docker daemon and the sink
\* do in the run (how many events, which container names, how many errors).
\*   pipeline: events and heartbeats flow, the sink fails some sends and dials;
\*   enrich  : every container name, a sink that never fails;
\*   outage  : the sink may refuse every dial;
\*   startup : every heartbeat ttl, no docker events, a sink that never fails;
\*   burst   : more docker events than a channel and its two ends hold, a sink
\*             that may refuse a dial.
DefaultHbTtl == 2
PlainConfig == CHOOSE c \in EventConfigs : c.Tags = << >>
PipelineFlags ==
  {fl \in Flags : fl.hbTtl = DefaultHbTtl /\ fl.urlOk /\ fl.ec = PlainConfig}
EnrichFlags ==
  {fl \in Flags : fl.hbTtl = DefaultHbTtl /\ fl.urlOk /\ fl.hbService = Empty}
OutageFlags ==
  {fl \in Flags : fl.hbTtl = DefaultHbTtl /\ fl.ec = PlainConfig}
StartupFlags ==
  {fl \in Flags : fl.ec = PlainConfig /\ fl.urlOk}
BurstFlags ==
  {fl \in PipelineFlags : fl.hbService = Empty}
Runs ==
  {[flags |-> fl,
    env |-> [events |-> MaxEvents, ids |-> {<<"c1">>}, statuses |-> {"start"},
             names |-> {<<"/", "web">>}, dialFails |-> MaxDialFails, sendFails |-> MaxSendFails]]
     : fl \in PipelineFlags}
  \cup
  {[flags |-> fl,
    env |-> [events |-> MaxEvents, ids |-> ContainerIds, statuses |-> Statuses,
             names |-> InfoNames, dialFails |-> 0, sendFails |-> 0]]
     : fl \in EnrichFlags}
  \cup
  {[flags |-> fl,
    env |-> [events |-> 1, ids |-> {<<"c1">>}, statuses |-> {"start"},
             names |-> {<<"/", "web">>}, dialFails |-> MaxConnectAttempts,
             sendFails |-> 0]]
     : fl \in OutageFlags}
  \cup
  {[flags |-> fl,
    env |-> [events |-> 0, ids |-> {}, statuses |-> {},
             names |-> {}, dialFails |-> 0, sendFails |-> 0]]
     : fl \in StartupFlags}
  \cup
  {[flags |-> fl,
    env |-> [events |-> ChanCap + 2, ids |-> {<<"c1">>}, statuses |-> {"start"},
             names |-> {<<"/", "web">>}, dialFails |-> MaxDialFails, sendFails |-> 0]]
     : fl \in BurstFlags}

\* The heartbeat raidman.Event built by main().
HeartbeatEvent(fl) ==
  [Host |-> fl.ec.Host,
   Time |-> 0,
   Description |-> <<"docker-agent is alive">>,
   Service |-> fl.hbService,
   Metric |-> 0,
   State |-> <<"ok">>,
   Tags |-> << >>,
   Ttl |-> fl.hbTtl,
   Attributes |-> EmptyMap]

\* -------------------------------------------------------------------- state
VARIABLES
  flags,              \* the parsed command line, fixed for the run
  env,                \* what the docker daemon and the sink do in the run
  proc,               \* "starting", "running" or "dead" (panic or log.Fatalf)
  cause,              \* why the process died
  now,                \* the clock, in seconds
  hb,                 \* the heartbeat raidman.Event, shared through a pointer
  interval,           \* the ticker period computed by waitForEvents
  hpc,                \* heartbeatGenerator: "off", "start", "wait", "enq"
  tickerC,            \* ticker.C, a channel of capacity 1: None or a time
  nextTick,           \* when the runtime ticker fires next
  dockerEventsChan,   \* chan *DockerEventInfo
  riemannEventsChan,  \* chan *raidman.Event
  epc,                \* dockerEventCallback: "idle" or "emit"
  eventInfo,          \* the DockerEventInfo the callback is about to send
  nEvents,            \* docker events delivered to the callback so far
  tpc,                \* eventTransformer: "recv" or "emit"
  tev,                \* the raidman.Event the transformer is about to send
  spc,                \* riemannSender: "recv", "connect", "backoff", "send", "requeue"
  client,             \* "nil" or "conn"
  cur,                \* the item the sender's loop variable ev points to
  i,                  \* connectToRiemann's loop counter
  w,                  \* connectToRiemann's current wait, in seconds
  \* history
  inspectCalls,       \* calls of InspectContainer so far
  rawEmitted,         \* gids sent on dockerEventsChan, in order
  recEnq,             \* gids the producers sent on riemannEventsChan, in order
  hbCount,            \* heartbeats sent on riemannEventsChan
  lastHbTime,         \* Time of the heartbeat when it was last sent on the channel
  delivered,          \* gids client.Send accepted, in order
  lastSent,           \* the last Send: the item, and the value Send read through it
  failLog,            \* gids whose client.Send returned an error, in order
  dialFails,          \* raidman.Dial errors so far
  dials,              \* raidman.Dial calls in the current connect episode
  waits               \* waits completed in the current connect episode

vars == <<flags, env, proc, cause, now, hb,
         interval, hpc, tickerC, nextTick, dockerEventsChan, riemannEventsChan,
         epc, eventInfo, nEvents, tpc, tev, spc,
         client, cur, i, w, inspectCalls, rawEmitted,
         recEnq, hbCount, lastHbTime, delivered, lastSent, failLog,
         dialFails, dials, waits>>

Running == proc = "running"

\* The value a channel item points to: the shared heartbeat, or the event
\* object built by getRiemannEvent, which nothing writes after construction.
\* (For a heartbeat item, obj is the value hb had when the item was sent.)
Deref(item) == IF item.ptr = "hb" THEN hb ELSE item.obj

\* ---------------------------------------------------------------------- main
Init ==
  /\ \E run \in Runs : flags = run.flags /\ env = run.env
  /\ proc = "starting"
  /\ cause = "none"
  /\ now = 0
  /\ hb = HeartbeatEvent(flags)
  /\ interval = 0
  /\ hpc = "off"
  /\ tickerC = None
  /\ nextTick = 0
  /\ dockerEventsChan = << >>
  /\ riemannEventsChan = << >>
  /\ epc = "idle"
  /\ eventInfo = None
  /\ nEvents = 0
  /\ tpc = "recv"
  /\ tev = None
  /\ spc = "recv"
  /\ client = "nil"
  /\ cur = None
  /\ i = 0
  /\ w = 0
  /\ inspectCalls = 0
  /\ rawEmitted = << >>
  /\ recEnq = << >>
  /\ hbCount = 0
  /\ lastHbTime = 0
  /\ delivered = << >>
  /\ lastSent = None
  /\ failLog = << >>
  /\ dialFails = 0
  /\ dials = 0
  /\ waits = << >>

\* Variant for C6: the heartbeat is started whatever the service name.
HeartbeatEnabled_Always(ev) == TRUE

\* The heartbeat is started only for a non-empty service name.
HeartbeatEnabled(ev) == ev.Service # Empty

\* interval := time.Duration(heartbeat.Ttl/2) * time.Second, in seconds.
HeartbeatInterval(ev) == TruncHalf(ev.Ttl)

\* waitForEvents: make the channels and start the goroutines.
waitForEvents ==
  /\ proc = "starting"
  /\ proc' = "running"
  /\ IF HeartbeatEnabled(hb)
     THEN /\ interval' = HeartbeatInterval(hb)
          /\ hpc' = "start"
     ELSE /\ interval' = interval
          /\ hpc' = "off"
  /\ UNCHANGED <<flags, env, cause, now, hb, tickerC, nextTick, dockerEventsChan,
                 riemannEventsChan, epc, eventInfo, nEvents, tpc, tev, spc, client,
                 cur, i, w, inspectCalls, rawEmitted, recEnq, hbCount, lastHbTime,
                 delivered, lastSent, failLog, dialFails, dials, waits>>

\* The wall clock advances; a due tick is delivered first.
ClockTick ==
  /\ Running
  /\ now < MaxTime
  /\ ~(hpc \in {"wait", "enq"} /\ nextTick = now)
  /\ now' = now + 1
  /\ UNCHANGED <<flags, env, proc, cause, hb, interval, hpc, tickerC, nextTick,
                 dockerEventsChan, riemannEventsChan, epc, eventInfo, nEvents, tpc,
                 tev, spc, client, cur, i, w, inspectCalls, rawEmitted, recEnq,
                 hbCount, lastHbTime, delivered, lastSent, failLog, dialFails, dials,
                 waits>>

\* ----------------------------------------------------------------- heartbeat
\* time.NewTicker(interval): panics for a non-positive interval.
NewTicker ==
  /\ Running
  /\ hpc = "start"
  /\ IF interval <= 0
     THEN /\ proc' = "dead"
          /\ cause' = "panic-ticker"
          /\ UNCHANGED <<hpc, nextTick>>
     ELSE /\ hpc' = "wait"
          /\ nextTick' = now + interval
          /\ UNCHANGED <<proc, cause>>
  /\ UNCHANGED <<flags, env, now, hb, interval, tickerC, dockerEventsChan,
                 riemannEventsChan, epc, eventInfo, nEvents, tpc, tev, spc, client,
                 cur, i, w, inspectCalls, rawEmitted, recEnq, hbCount, lastHbTime,
                 delivered, lastSent, failLog, dialFails, dials, waits>>

\* The runtime's ticker: sends the time on ticker.C, dropping the tick when the
\* channel still holds the previous one.
TickerFire ==
  /\ Running
  /\ hpc \in {"wait", "enq"}
  /\ nextTick = now
  /\ tickerC' = IF tickerC = None THEN [t |-> now] ELSE tickerC
  /\ nextTick' = nextTick + interval
  /\ UNCHANGED <<flags, env, proc, cause, now, hb, interval, hpc, dockerEventsChan,
                 riemannEventsChan, epc, eventInfo, nEvents, tpc, tev, spc, client,
                 cur, i, w, inspectCalls, rawEmitted, recEnq, hbCount, lastHbTime,
                 delivered, lastSent, failLog, dialFails, dials, waits>>

\* Variant for C8: the tick also clears the heartbeat's Ttl.
heartbeatStamp_ClearsTtl ==
  /\ Running
  /\ hpc = "wait"
  /\ tickerC # None
  /\ hb' = [hb EXCEPT !.Time = tickerC.t, !.Ttl = 0]
  /\ tickerC' = None
  /\ hpc' = "enq"
  /\ UNCHANGED <<flags, env, proc, cause, now, interval, nextTick, dockerEventsChan,
                 riemannEventsChan, epc, eventInfo, nEvents, tpc, tev, spc, client,
                 cur, i, w, inspectCalls, rawEmitted, recEnq, hbCount, lastHbTime,
                 delivered, lastSent, failLog, dialFails, dials, waits>>

\* heartbeatGenerator, `t := <-ticker.C; ev.Time = t.Unix()`.
heartbeatStamp ==
  /\ Running
  /\ hpc = "wait"
  /\ tickerC # None
  /\ hb' = [hb EXCEPT !.Time = tickerC.t]
  /\ tickerC' = None
  /\ hpc' = "enq"
  /\ UNCHANGED <<flags, env, proc, cause, now, interval, nextTick, dockerEventsChan,
                 riemannEventsChan, epc, eventInfo, nEvents, tpc, tev, spc, client,
                 cur, i, w, inspectCalls, rawEmitted, recEnq, hbCount, lastHbTime,
                 delivered, lastSent, failLog, dialFails, dials, waits>>

\* Variant for C16: the heartbeat generator also waits for a sender in backoff.
heartbeatSend_WaitsForSender ==
  /\ Running
  /\ hpc = "enq"
  /\ spc # "backoff"
  /\ Len(riemannEventsChan) < ChanCap
  /\ LET item == [ptr |-> "hb", gid |-> <<"hb", hbCount + 1>>, obj |-> hb]
     IN /\ riemannEventsChan' = Append(riemannEventsChan, item)
        /\ recEnq' = Append(recEnq, item.gid)
  /\ hbCount' = hbCount + 1
  /\ lastHbTime' = hb.Time
  /\ hpc' = "wait"
  /\ UNCHANGED <<flags, env, proc, cause, now, hb, interval, tickerC, nextTick,
                 dockerEventsChan, epc, eventInfo, nEvents, tpc, tev, spc, client, cur,
                 i, w, inspectCalls, rawEmitted, delivered, lastSent, failLog,
                 dialFails, dials, waits>>

\* heartbeatGenerator, `outChan <- ev`: blocks while the channel is full.
heartbeatSend ==
  /\ Running
  /\ hpc = "enq"
  /\ Len(riemannEventsChan) < ChanCap
  /\ LET item == [ptr |-> "hb", gid |-> <<"hb", hbCount + 1>>, obj |-> hb]
     IN /\ riemannEventsChan' = Append(riemannEventsChan, item)
        /\ recEnq' = Append(recEnq, item.gid)
  /\ hbCount' = hbCount + 1
  /\ lastHbTime' = hb.Time
  /\ hpc' = "wait"
  /\ UNCHANGED <<flags, env, proc, cause, now, hb, interval, tickerC, nextTick,
                 dockerEventsChan, epc, eventInfo, nEvents, tpc, tev, spc, client, cur,
                 i, w, inspectCalls, rawEmitted, delivered, lastSent, failLog,
                 dialFails, dials, waits>>

\* ------------------------------------------------------------------ enricher
\* A dockerclient.Event as the monitor hands it to the callback.
DockerEvents ==
  [Id : env.ids, Status : env.statuses, From : {ImageName},
   Time : {EventTime + nEvents}]

\* Variant for C9: every event is inspected.
ShouldInspect_Always(event) == TRUE

\* Whether the callback inspects the container of an event.
ShouldInspect(event) == event.Status # DestroyStatus

\* Variant for C12: every separator of the name is removed.
RECURSIVE RemoveAll(_, _)
RemoveAll(s, old) ==
  IF s = << >> THEN << >>
  ELSE IF Head(s) = old THEN RemoveAll(Tail(s), old)
       ELSE <<Head(s)>> \o RemoveAll(Tail(s), old)
DeriveName_StripsAll(info, id) ==
  IF info.Name # Empty THEN RemoveAll(info.Name, "/") ELSE id

\* The Name of the DockerEventInfo, from the ContainerInfo it ends up with.
DeriveName(info, id) ==
  IF info.Name # Empty THEN ReplaceFirst(info.Name, "/") ELSE id

\* dockerEventCallback up to the channel send: build the DockerEventInfo, inspect
\* the container unless the status is "destroy" (out is what InspectContainer
\* returns if it is called), derive the name.
BuildEventInfo(event, out, n) ==
  LET cinfo == IF ShouldInspect(event) /\ ~out.err THEN out.info
               ELSE EmptyContainerInfo
  IN [Host |-> Empty,
      Time |-> event.Time,
      ContainerId |-> event.Id,
      Status |-> event.Status,
      Image |-> event.From,
      Name |-> DeriveName(cinfo, event.Id),
      ContainerInfo |-> cinfo,
      gid |-> <<"ev", n>>,
      gsrc |-> event,
      ginspects |-> IF ShouldInspect(event) THEN 1 ELSE 0,
      gerr |-> ShouldInspect(event) /\ out.err]

dockerEventCallback(event, out) ==
  /\ Running
  /\ epc = "idle"
  /\ nEvents < env.events
  /\ nEvents' = nEvents + 1
  /\ eventInfo' = BuildEventInfo(event, out, nEvents + 1)
  /\ inspectCalls' = inspectCalls + eventInfo'.ginspects
  /\ epc' = "emit"
  /\ UNCHANGED <<flags, env, proc, cause, now, hb, interval, hpc, tickerC, nextTick,
                 dockerEventsChan, riemannEventsChan, tpc, tev, spc, client, cur, i, w,
                 rawEmitted, recEnq, hbCount, lastHbTime, delivered, lastSent, failLog,
                 dialFails, dials, waits>>

\* Variant for C10: an event whose inspection failed is dropped.
dockerEventSend_DropFailed ==
  /\ Running
  /\ epc = "emit"
  /\ Len(dockerEventsChan) < ChanCap
  /\ IF eventInfo.gerr
     THEN UNCHANGED <<dockerEventsChan, rawEmitted>>
     ELSE /\ dockerEventsChan' = Append(dockerEventsChan, eventInfo)
          /\ rawEmitted' = Append(rawEmitted, eventInfo.gid)
  /\ eventInfo' = None
  /\ epc' = "idle"
  /\ UNCHANGED <<flags, env, proc, cause, now, hb, interval, hpc, tickerC, nextTick,
                 riemannEventsChan, nEvents, tpc, tev, spc, client, cur, i, w,
                 inspectCalls, recEnq, hbCount, lastHbTime, delivered, lastSent,
                 failLog, dialFails, dials, waits>>

\* dockerEventCallback, `evChan <- &eventInfo`: blocks while the channel is full.
dockerEventSend ==
  /\ Running
  /\ epc = "emit"
  /\ Len(dockerEventsChan) < ChanCap
  /\ dockerEventsChan' = Append(dockerEventsChan, eventInfo)
  /\ rawEmitted' = Append(rawEmitted, eventInfo.gid)
  /\ eventInfo' = None
  /\ epc' = "idle"
  /\ UNCHANGED <<flags, env, proc, cause, now, hb, interval, hpc, tickerC, nextTick,
                 riemannEventsChan, nEvents, tpc, tev, spc, client, cur, i, w,
                 inspectCalls, recEnq, hbCount, lastHbTime, delivered, lastSent,
                 failLog, dialFails, dials, waits>>

\* --------------------------------------------------------------- transformer
\* Variant for C13: tags whose template fails are left out.
getRiemannEvent_SkipsFailedTags(info0, cfg) ==
  LET info == [info0 EXCEPT !.Host = cfg.Host]
      NotEmpty(t) == t # Empty
  IN [Host |-> info.Host,
      Time |-> info.Time,
      Description |-> execTemplate(cfg.Description, info),
      Service |-> execTemplate(cfg.Service, info),
      Metric |-> cfg.Metric,
      State |-> execTemplate(cfg.State, info),
      Tags |-> SelectSeq([k \in 1..Len(cfg.Tags) |-> execTemplate(cfg.Tags[k], info)],
                         NotEmpty),
      Ttl |-> 0,
      Attributes |-> [k \in DOMAIN cfg.Attributes |->
                        execTemplate(cfg.Attributes[k], info)]]

\* getRiemannEvent: the raidman.Event rendered from a DockerEventInfo.
getRiemannEvent(info0, cfg) ==
  LET info == [info0 EXCEPT !.Host = cfg.Host]
  IN [Host |-> info.Host,
      Time |-> info.Time,
      Description |-> execTemplate(cfg.Description, info),
      Service |-> execTemplate(cfg.Service, info),
      Metric |-> cfg.Metric,
      State |-> execTemplate(cfg.State, info),
      Tags |-> [k \in 1..Len(cfg.Tags) |-> execTemplate(cfg.Tags[k], info)],
      Ttl |-> 0,
      Attributes |-> [k \in DOMAIN cfg.Attributes |->
                        execTemplate(cfg.Attributes[k], info)]]

\* eventTransformer, `ev := <-inChan` and the call of getRiemannEvent.
eventTransformerRecv ==
  /\ Running
  /\ tpc = "recv"
  /\ dockerEventsChan # << >>
  /\ LET info == Head(dockerEventsChan)
     IN tev' = [ptr |-> "ev", gid |-> info.gid,
                obj |-> getRiemannEvent(info, flags.ec), ginfo |-> info]
  /\ dockerEventsChan' = Tail(dockerEventsChan)
  /\ tpc' = "emit"
  /\ UNCHANGED <<flags, env, proc, cause, now, hb, interval, hpc, tickerC, nextTick,
                 riemannEventsChan, epc, eventInfo, nEvents, spc, client, cur, i, w,
                 inspectCalls, rawEmitted, recEnq, hbCount, lastHbTime, delivered,
                 lastSent, failLog, dialFails, dials, waits>>

\* Variant for C15: a record that finds the channel full is discarded.
eventTransformerSend_DropWhenFull ==
  /\ Running
  /\ tpc = "emit"
  /\ IF Len(riemannEventsChan) < ChanCap
     THEN /\ riemannEventsChan' =
               Append(riemannEventsChan, [ptr |-> tev.ptr, gid |-> tev.gid, obj |-> tev.obj])
          /\ recEnq' = Append(recEnq, tev.gid)
     ELSE UNCHANGED <<riemannEventsChan, recEnq>>
  /\ tev' = None
  /\ tpc' = "recv"
  /\ UNCHANGED <<flags, env, proc, cause, now, hb, interval, hpc, tickerC, nextTick,
                 dockerEventsChan, epc, eventInfo, nEvents, spc, client, cur, i, w,
                 inspectCalls, rawEmitted, hbCount, lastHbTime, delivered, lastSent,
                 failLog, dialFails, dials, waits>>

\* eventTransformer, `outChan <- ...`: blocks while the channel is full.
eventTransformerSend ==
  /\ Running
  /\ tpc = "emit"
  /\ Len(riemannEventsChan) < ChanCap
  /\ riemannEventsChan' =
       Append(riemannEventsChan, [ptr |-> tev.ptr, gid |-> tev.gid, obj |-> tev.obj])
  /\ recEnq' = Append(recEnq, tev.gid)
  /\ tev' = None
  /\ tpc' = "recv"
  /\ UNCHANGED <<flags, env, proc, cause, now, hb, interval, hpc, tickerC, nextTick,
                 dockerEventsChan, epc, eventInfo, nEvents, spc, client, cur, i, w,
                 inspectCalls, rawEmitted, hbCount, lastHbTime, delivered, lastSent,
                 failLog, dialFails, dials, waits>>

\* -------------------------------------------------------------------- sender
\* Variant for C14: the sender takes the newest item of the channel.
riemannSenderRecv_Lifo ==
  /\ Running
  /\ spc = "recv"
  /\ riemannEventsChan # << >>
  /\ cur' = riemannEventsChan[Len(riemannEventsChan)]
  /\ riemannEventsChan' = SubSeq(riemannEventsChan, 1, Len(riemannEventsChan) - 1)
  /\ IF client = "nil"
     THEN /\ spc' = "connect"
          /\ i' = 0
          /\ dials' = 0
          /\ waits' = << >>
     ELSE /\ spc' = "send"
          /\ UNCHANGED <<i, dials, waits>>
  /\ UNCHANGED <<flags, env, proc, cause, now, hb, interval, hpc, tickerC, nextTick,
                 dockerEventsChan, epc, eventInfo, nEvents, tpc, tev, client, w,
                 inspectCalls, rawEmitted, recEnq, hbCount, lastHbTime, delivered,
                 lastSent, failLog, dialFails>>

\* Variant for C20: the attempt counter of the previous episode is kept.
riemannSenderRecv_KeepsCounter ==
  /\ Running
  /\ spc = "recv"
  /\ riemannEventsChan # << >>
  /\ cur' = Head(riemannEventsChan)
  /\ riemannEventsChan' = Tail(riemannEventsChan)
  /\ IF client = "nil"
     THEN /\ spc' = "connect"
          /\ dials' = 0
          /\ waits' = << >>
          /\ UNCHANGED i
     ELSE /\ spc' = "send"
          /\ UNCHANGED <<i, dials, waits>>
  /\ UNCHANGED <<flags, env, proc, cause, now, hb, interval, hpc, tickerC, nextTick,
                 dockerEventsChan, epc, eventInfo, nEvents, tpc, tev, client, w,
                 inspectCalls, rawEmitted, recEnq, hbCount, lastHbTime, delivered,
                 lastSent, failLog, dialFails>>

\* riemannSender, `ev := <-evChan`; with no client it enters connectToRiemann,
\* whose loop starts at i = 0.  (Nothing ever sends nil, so `ev == nil` is never
\* taken.)
riemannSenderRecv ==
  /\ Running
  /\ spc = "recv"
  /\ riemannEventsChan # << >>
  /\ cur' = Head(riemannEventsChan)
  /\ riemannEventsChan' = Tail(riemannEventsChan)
  /\ IF client = "nil"
     THEN /\ spc' = "connect"
          /\ i' = 0
          /\ dials' = 0
          /\ waits' = << >>
     ELSE /\ spc' = "send"
          /\ UNCHANGED <<i, dials, waits>>
  /\ UNCHANGED <<flags, env, proc, cause, now, hb, interval, hpc, tickerC, nextTick,
                 dockerEventsChan, epc, eventInfo, nEvents, tpc, tev, client, w,
                 inspectCalls, rawEmitted, recEnq, hbCount, lastHbTime, delivered,
                 lastSent, failLog, dialFails>>

\* connectToRiemann, url.Parse fails: log.Fatalf ends the process.
connectParseFatal ==
  /\ Running
  /\ spc = "connect"
  /\ ~flags.urlOk
  /\ proc' = "dead"
  /\ cause' = "fatal-url"
  /\ UNCHANGED <<flags, env, now, hb, interval, hpc, tickerC, nextTick,
                 dockerEventsChan, riemannEventsChan, epc, eventInfo, nEvents, tpc,
                 tev, spc, client, cur, i, w, inspectCalls, rawEmitted, recEnq,
                 hbCount, lastHbTime, delivered, lastSent, failLog, dialFails, dials,
                 waits>>

\* connectToRiemann, raidman.Dial succeeds: return the connection.
connectDialOk ==
  /\ Running
  /\ spc = "connect"
  /\ flags.urlOk
  /\ dials' = dials + 1
  /\ client' = "conn"
  /\ spc' = "send"
  /\ UNCHANGED <<flags, env, proc, cause, now, hb, interval, hpc, tickerC, nextTick,
                 dockerEventsChan, riemannEventsChan, epc, eventInfo, nEvents, tpc,
                 tev, cur, i, w, inspectCalls, rawEmitted, recEnq, hbCount, lastHbTime,
                 delivered, lastSent, failLog, dialFails, waits>>

\* The wait connectToRiemann starts after failed attempt number k.
BackoffSeconds(k) == Pow2(k)

\* connectToRiemann, raidman.Dial fails: start the timer of 2^i seconds.
connectDialFail ==
  /\ Running
  /\ spc = "connect"
  /\ flags.urlOk
  /\ dialFails < env.dialFails
  /\ dialFails' = dialFails + 1
  /\ dials' = dials + 1
  /\ w' = BackoffSeconds(i)
  /\ spc' = "backoff"
  /\ UNCHANGED <<flags, env, proc, cause, now, hb, interval, hpc, tickerC, nextTick,
                 dockerEventsChan, riemannEventsChan, epc, eventInfo, nEvents, tpc,
                 tev, client, cur, i, inspectCalls, rawEmitted, recEnq, hbCount,
                 lastHbTime, delivered, lastSent, failLog, waits>>

\* Variant for C3: the loop bound is off by one.
ConnectLoopContinues_OffByOne(k) == k <= MaxConnectAttempts

\* Whether the connect loop runs another iteration with counter k.
ConnectLoopContinues(k) == k < MaxConnectAttempts

\* connectToRiemann, the timer fires: `continue`, i++; the loop either dials
\* again or ends in panic("can't connect to riemann").
connectBackoffDone ==
  /\ Running
  /\ spc = "backoff"
  /\ waits' = Append(waits, w)
  /\ i' = i + 1
  /\ IF ConnectLoopContinues(i + 1)
     THEN /\ spc' = "connect"
          /\ UNCHANGED <<proc, cause>>
     ELSE /\ proc' = "dead"
          /\ cause' = "panic-connect"
          /\ UNCHANGED spc
  /\ UNCHANGED <<flags, env, now, hb, interval, hpc, tickerC, nextTick,
                 dockerEventsChan, riemannEventsChan, epc, eventInfo, nEvents, tpc,
                 tev, client, cur, w, inspectCalls, rawEmitted, recEnq, hbCount,
                 lastHbTime, delivered, lastSent, failLog, dialFails, dials>>

\* sendEvent returns true: client.Send delivered what ev points to.
sendEventOk ==
  /\ Running
  /\ spc = "send"
  /\ delivered' = Append(delivered, cur.gid)
  /\ lastSent' = [item |-> cur, sent |-> Deref(cur)]
  /\ cur' = None
  /\ spc' = "recv"
  /\ UNCHANGED <<flags, env, proc, cause, now, hb, interval, hpc, tickerC, nextTick,
                 dockerEventsChan, riemannEventsChan, epc, eventInfo, nEvents, tpc,
                 tev, client, i, w, inspectCalls, rawEmitted, recEnq, hbCount,
                 lastHbTime, failLog, dialFails, dials, waits>>

\* sendEvent returns false: riemannSender drops the client.
sendEventFail ==
  /\ Running
  /\ spc = "send"
  /\ Len(failLog) < env.sendFails
  /\ failLog' = Append(failLog, cur.gid)
  /\ client' = "nil"
  /\ spc' = "requeue"
  /\ UNCHANGED <<flags, env, proc, cause, now, hb, interval, hpc, tickerC, nextTick,
                 dockerEventsChan, riemannEventsChan, epc, eventInfo, nEvents, tpc,
                 tev, cur, i, w, inspectCalls, rawEmitted, recEnq, hbCount, lastHbTime,
                 delivered, lastSent, dialFails, dials, waits>>

\* Variant for C1: the failed record is discarded instead of re-enqueued.
riemannSenderRequeue_Drop ==
  /\ Running
  /\ spc = "requeue"
  /\ cur' = None
  /\ spc' = "recv"
  /\ UNCHANGED <<flags, env, proc, cause, now, hb, interval, hpc, tickerC, nextTick,
                 dockerEventsChan, riemannEventsChan, epc, eventInfo, nEvents, tpc,
                 tev, client, i, w, inspectCalls, rawEmitted, recEnq, hbCount,
                 lastHbTime, delivered, lastSent, failLog, dialFails, dials, waits>>

\* riemannSender, `evChan <- ev`: blocks while the channel is full.
riemannSenderRequeue ==
  /\ Running
  /\ spc = "requeue"
  /\ Len(riemannEventsChan) < ChanCap
  /\ riemannEventsChan' = Append(riemannEventsChan, cur)
  /\ cur' = None
  /\ spc' = "recv"
  /\ UNCHANGED <<flags, env, proc, cause, now, hb, interval, hpc, tickerC, nextTick,
                 dockerEventsChan, epc, eventInfo, nEvents, tpc, tev, client, i, w,
                 inspectCalls, rawEmitted, recEnq, hbCount, lastHbTime, delivered,
                 lastSent, failLog, dialFails, dials, waits>>

\* ------------------------------------------------------------- specification
Next ==
  \/ waitForEvents
  \/ ClockTick
  \/ NewTicker
  \/ TickerFire
  \/ heartbeatStamp
  \/ heartbeatSend
  \/ \E event \in DockerEvents, out \in InspectOutcomes(env.names) :
       dockerEventCallback(event, out)
  \/ dockerEventSend
  \/ eventTransformerRecv
  \/ eventTransformerSend
  \/ riemannSenderRecv
  \/ connectParseFatal
  \/ connectDialOk
  \/ connectDialFail
  \/ connectBackoffDone
  \/ sendEventOk
  \/ sendEventFail
  \/ riemannSenderRequeue

Spec == Init /\ [][Next]_vars

\* Fair scheduling: every goroutine that can take a step eventually takes one,
\* the runtime delivers due ticks, and the clock does not stop before MaxTime.
\* The arrival of docker events is left to the daemon.
SenderStep ==
  \/ riemannSenderRecv
  \/ connectParseFatal
  \/ connectDialOk
  \/ connectDialFail
  \/ connectBackoffDone
  \/ sendEventOk
  \/ sendEventFail
  \/ riemannSenderRequeue
Fairness ==
  /\ WF_vars(waitForEvents)
  /\ WF_vars(ClockTick)
  /\ WF_vars(NewTicker)
  /\ WF_vars(TickerFire)
  /\ WF_vars(heartbeatStamp)
  /\ WF_vars(heartbeatSend)
  /\ WF_vars(dockerEventSend)
  /\ WF_vars(eventTransformerRecv)
  /\ WF_vars(eventTransformerSend)
  /\ WF_vars(SenderStep)
FairSpec == Init /\ [][Next]_vars /\ Fairness

\* ------------------------------------------------------------------- claims
Range(s) == {s[k] : k \in 1..Len(s)}
ChanGids(ch) == {ch[k].gid : k \in 1..Len(ch)}
HeldGids(c) == IF c = None THEN {} ELSE {c.gid}
AllGids ==
  ({"ev"} \X (1..(MaxEvents + ChanCap + 2))) \cup ({"hb"} \X (1..MaxTime))

\* Every record a producer has sent on riemannEventsChan is delivered, on the
\* channel, or held by the sender.
Accounted ==
  Range(recEnq) \subseteq
    (Range(delivered) \cup ChanGids(riemannEventsChan) \cup HeldGids(cur))

\* C1: when a send fails the sender drops its client and keeps the same record,
\* its next step puts that record at the back of riemannEventsChan, and while
\* the process runs no record that was enqueued and not delivered is lost.
C1_RequeueOnSendFailure ==
  [][ /\ (spc = "send" /\ spc' # "send" /\ delivered' = delivered)
           => (spc' = "requeue" /\ client' = "nil" /\ cur' = cur)
      /\ (spc = "requeue" /\ spc' # "requeue")
           => (spc' = "recv"
               /\ riemannEventsChan' = Append(riemannEventsChan, cur))
      /\ (spc = "requeue" => client = "nil" /\ cur # None)
      /\ Accounted' ]_vars

\* A failed record is back on the channel, last in line, and the client is gone.
C1_Witness ==
  /\ failLog # << >>
  /\ spc = "recv"
  /\ client = "nil"
  /\ riemannEventsChan # << >>
  /\ riemannEventsChan[Len(riemannEventsChan)].gid = failLog[Len(failLog)]

\* How often x occurs in the sequence s.
Count(s, x) == Cardinality({k \in 1..Len(s) : s[k] = x})

\* C2: a record whose send failed once is eventually delivered, exactly once,
\* unless the sink fails it again or refuses the dials up to the ceiling.
C2_FailedOnceEventuallyDelivered ==
  \A g \in AllGids :
    (Count(failLog, g) = 1)
      ~> (Count(delivered, g) = 1 \/ Count(failLog, g) > 1 \/ cause = "panic-connect")

\* C3: a connect episode makes at most 10 dials; a successful dial ends it with a
\* client held; the wait after the 10th failed dial ends in the fatal exit; and
\* once the process is dead nothing changes any more.
C3_ConnectCeilingFatal ==
  [][ /\ proc # "dead"
      /\ dials' <= MaxConnectAttempts
      /\ (spc' \in {"connect", "backoff"} => client' = "nil" /\ cur' # None)
      /\ (spc = "connect" /\ dials' = dials + 1 /\ spc' # "backoff")
           => (spc' = "send" /\ client' = "conn")
      /\ (spc = "backoff" /\ dials = MaxConnectAttempts /\ i' # i)
           => (proc' = "dead" /\ cause' = "panic-connect")
      /\ (cause' = "panic-connect" => dials' = MaxConnectAttempts /\ client' = "nil") ]_vars

\* The tenth dial has failed and the process has died of it.
C3_Witness ==
  /\ proc = "dead"
  /\ cause = "panic-connect"
  /\ dials = MaxConnectAttempts

\* C4: the wait after failed attempt i is 2^i seconds, and a wait is only ever
\* started when another attempt is still permitted.
C4_BackoffBetweenAttempts ==
  /\ \A k \in 1..Len(waits) : waits[k] = Pow2(k - 1)
  /\ spc = "backoff" => (w = Pow2(dials - 1) /\ dials < MaxConnectAttempts)

\* C5: what the sender sends is the value the record had when it was enqueued.
C5_SentEqualsEnqueued ==
  lastSent # None => lastSent.sent = lastSent.item.obj

\* The positions of s that hold a pointer to the heartbeat.
HbItems(s) == {k \in 1..Len(s) : s[k].ptr = "hb"}

\* C6: with an empty heartbeat service the generator is never started and no
\* heartbeat is ever stamped, enqueued, held or delivered.
C6_HeartbeatDisabled ==
  flags.hbService = Empty =>
    /\ hpc = "off"
    /\ tickerC = None
    /\ hb = HeartbeatEvent(flags)
    /\ hbCount = 0
    /\ HbItems(riemannEventsChan) = {}
    /\ (cur # None => cur.ptr = "ev")
    /\ (lastSent # None => lastSent.item.ptr = "ev")
    /\ \A k \in 1..Len(recEnq) : recEnq[k][1] = "ev"

\* The heartbeat is disabled and an event record has been delivered.
C6_Witness ==
  /\ flags.hbService = Empty
  /\ proc = "running"
  /\ delivered # << >>
  /\ lastSent.item.ptr = "ev"

\* C7: while the heartbeat ticks, its period is exactly half the configured ttl.
C7_PeriodIsHalfTtl ==
  hpc \in {"wait", "enq"} => 2 * interval = flags.hbTtl

\* ev differs from the heartbeat built at startup in Time at most.
SameButTime(ev) == [ev EXCEPT !.Time = 0] = HeartbeatEvent(flags)

\* C8: the heartbeat's fields other than Time are those fixed at startup, in the
\* shared event and in every heartbeat sent on the channel, and the heartbeat's
\* Time never falls below the Time it was last enqueued with.
C8_HeartbeatFieldsFixed ==
  /\ SameButTime(hb)
  /\ \A k \in HbItems(riemannEventsChan) : SameButTime(riemannEventsChan[k].obj)
  /\ (cur # None /\ cur.ptr = "hb") => SameButTime(cur.obj)
  /\ (lastSent # None /\ lastSent.item.ptr = "hb") => SameButTime(lastSent.sent)
  /\ lastHbTime <= hb.Time
  /\ \A k \in HbItems(riemannEventsChan) : riemannEventsChan[k].obj.Time <= lastHbTime

\* Two heartbeats have been enqueued, the second with a later Time.
C8_Witness ==
  /\ hbCount >= 2
  /\ \E k \in HbItems(riemannEventsChan) : riemannEventsChan[k].obj.Time < lastHbTime

\* The DockerEventInfos between the callback and the transformer.
InFlightInfos ==
  Range(dockerEventsChan) \cup (IF eventInfo = None THEN {} ELSE {eventInfo})

\* C9: a "destroy" event is never inspected and its DockerEventInfo has the empty
\* ContainerInfo and the container id as name; any other event is inspected once.
C9_DestroyNotInspected ==
  /\ \A info \in InFlightInfos :
       IF info.gsrc.Status = "destroy"
       THEN /\ info.ginspects = 0
            /\ info.ContainerInfo = EmptyContainerInfo
            /\ info.Name = info.gsrc.Id
       ELSE info.ginspects = 1
  /\ inspectCalls <= nEvents
  /\ (epc = "emit" /\ eventInfo.gsrc.Status = "destroy" /\ nEvents = 1)
       => inspectCalls = 0

\* A "destroy" event has gone through the callback without an inspection.
C9_Witness ==
  /\ \E info \in InFlightInfos :
       info.gsrc.Status = "destroy" /\ info.Name = info.gsrc.Id
  /\ inspectCalls = 0

\* C10: an event whose inspection failed was inspected once, has the empty
\* ContainerInfo and the container id as name, and is sent on dockerEventsChan
\* like every other event: each event exactly once, in order.
C10_InspectFailureStillEmitted ==
  /\ \A info \in InFlightInfos :
       info.gerr => /\ info.ginspects = 1
                    /\ info.ContainerInfo = EmptyContainerInfo
                    /\ info.Name = info.gsrc.Id
  /\ Len(rawEmitted) = nEvents - (IF epc = "emit" THEN 1 ELSE 0)
  /\ \A k \in 1..Len(rawEmitted) : rawEmitted[k] = <<"ev", k>>
  /\ epc = "emit" => eventInfo.gid = <<"ev", nEvents>>

\* An event whose inspection failed is on the channel and a later event has been
\* sent after it.
C10_Witness ==
  /\ Len(dockerEventsChan) = 2
  /\ dockerEventsChan[1].gerr
  /\ rawEmitted = << <<"ev", 1>>, <<"ev", 2>> >>

\* C11: every DockerEventInfo the callback builds has a non-empty Name.
C11_NameNeverEmpty ==
  \A info \in InFlightInfos : info.gsrc.Id # Empty => info.Name # Empty

\* C12: when the inspected name is non-empty and begins with the separator, the
\* Name is the inspected name without that first token, the rest unchanged.
C12_LeadingSeparatorStripped ==
  \A info \in InFlightInfos :
    (info.ContainerInfo.Name # Empty /\ Head(info.ContainerInfo.Name) = "/")
      => info.Name = Tail(info.ContainerInfo.Name)

\* A name with a leading and an inner separator has gone through the callback.
C12_Witness ==
  \E info \in InFlightInfos :
    /\ info.ContainerInfo.Name = <<"/", "web", "/", "b">>
    /\ info.Name = <<"web", "/", "b">>

\* The event records on riemannEventsChan or held by the sender.
QueuedEventRecords ==
  {riemannEventsChan[k].obj : k \in {j \in 1..Len(riemannEventsChan) :
                                      riemannEventsChan[j].ptr = "ev"}}
  \cup (IF cur # None /\ cur.ptr = "ev" THEN {cur.obj} ELSE {})

\* What a template yields for info: the empty string when its execution fails.
Rendered(tpl, info) ==
  IF Execute(tpl, info, 1).err THEN Empty ELSE Execute(tpl, info, 1).out

\* C13: the record the transformer builds has the configured host and metric,
\* the event's time, one tag per tag template in configuration order, one
\* attribute per configured key, each field rendered from its template and
\* empty when the template fails; the records on the sender queue keep that shape.
C13_RecordFromConfig ==
  /\ tev # None =>
       LET cfg == flags.ec
           info == [tev.ginfo EXCEPT !.Host = cfg.Host]
           r == tev.obj
       IN /\ r.Host = cfg.Host
          /\ r.Metric = cfg.Metric
          /\ r.Time = tev.ginfo.gsrc.Time
          /\ r.Service = Rendered(cfg.Service, info)
          /\ r.Description = Rendered(cfg.Description, info)
          /\ r.State = Rendered(cfg.State, info)
          /\ Len(r.Tags) = Len(cfg.Tags)
          /\ \A k \in 1..Len(cfg.Tags) : r.Tags[k] = Rendered(cfg.Tags[k], info)
          /\ DOMAIN r.Attributes = DOMAIN cfg.Attributes
          /\ \A k \in DOMAIN cfg.Attributes :
               r.Attributes[k] = Rendered(cfg.Attributes[k], info)
  /\ \A r \in QueuedEventRecords :
       /\ r.Host = flags.ec.Host
       /\ r.Metric = flags.ec.Metric
       /\ Len(r.Tags) = Len(flags.ec.Tags)
       /\ DOMAIN r.Attributes = DOMAIN flags.ec.Attributes

\* A record with a failed tag between two equal tags, a failed description and
\* a failed attribute is on the sender queue.
C13_Witness ==
  \E r \in QueuedEventRecords :
    /\ r.Tags = << <<"docker">>, Empty, <<"docker">> >>
    /\ r.Description = Empty
    /\ r.Attributes["img"] = Empty
    /\ r.Attributes["docker-host"] = HostName

\* The gids whose send never failed, so that they were never re-enqueued.
NeverRequeued(g) == g \notin Range(failLog)

\* C14: of two records of one producer that were never re-enqueued, the one
\* enqueued first is delivered first (a producer numbers its records in the
\* order it enqueues them; events are numbered as the callback receives them).
C14_ProducerOrder ==
  /\ \A a, b \in 1..Len(delivered) :
       (/\ a < b
        /\ delivered[a][1] = delivered[b][1]
        /\ NeverRequeued(delivered[a])
        /\ NeverRequeued(delivered[b]))
         => delivered[a][2] < delivered[b][2]
  /\ \A b \in 1..Len(delivered) : \A g \in Range(recEnq) :
       (/\ g[1] = delivered[b][1]
        /\ g[2] < delivered[b][2]
        /\ NeverRequeued(g)
        /\ NeverRequeued(delivered[b]))
         => \E a \in 1..(b - 1) : delivered[a] = g
  /\ \A k \in 1..Len(recEnq) : \A j \in 1..(k - 1) :
       recEnq[j][1] = recEnq[k][1] => recEnq[j][2] < recEnq[k][2]

\* Two events were delivered, in the order the callback received them, and no
\* send has failed.
C14_Witness ==
  /\ failLog = << >>
  /\ \E a, b \in 1..Len(delivered) :
       a < b /\ delivered[a] = <<"ev", 1>> /\ delivered[b] = <<"ev", 2>>

\* The gids of the items of a channel and of a held item, in order.
GidSeq(ch) == [k \in 1..Len(ch) |-> ch[k].gid]
HeldSeq(c) == IF c = None THEN << >> ELSE <<c.gid>>
IsEventGid(g) == g[1] = "ev"

\* C15: the events the callback has received are, each exactly once and in
\* order, sent on dockerEventsChan or still held by the callback; the ones sent
\* on dockerEventsChan are, each exactly once, rendered and sent on
\* riemannEventsChan, held by the transformer, or still on dockerEventsChan; and
\* no channel ever holds more than its capacity, a sender waiting instead.
C15_NoDropNoDuplicate ==
  /\ rawEmitted \o HeldSeq(eventInfo) = [k \in 1..nEvents |-> <<"ev", k>>]
  /\ SelectSeq(recEnq, IsEventGid) \o HeldSeq(tev) \o GidSeq(dockerEventsChan)
       = rawEmitted
  /\ Len(dockerEventsChan) <= ChanCap
  /\ Len(riemannEventsChan) <= ChanCap

\* The callback holds an event it cannot send because dockerEventsChan is full
\* of the events before it.
C15_Witness ==
  /\ epc = "emit"
  /\ Len(dockerEventsChan) = ChanCap
  /\ eventInfo.gid = <<"ev", ChanCap + 1>>

\* The sender is inside connectToRiemann, waiting on its backoff timer.
InBackoff == Running /\ spc = "backoff"

\* C16 as stated: whenever the sender waits in a connect backoff, a stage that
\* holds an item to enqueue can enqueue it.
C16_ProducersNeverBlockedInBackoff ==
  InBackoff =>
    /\ (epc = "emit" => ENABLED dockerEventSend)
    /\ (tpc = "emit" => ENABLED eventTransformerSend)
    /\ (hpc = "enq" => ENABLED heartbeatSend)

\* C16, amended: whenever the sender waits in a connect backoff, every other
\* stage can take its next step as soon as the channel that step uses allows
\* it: a receive when its input is not empty, an enqueue when its output is
\* not full.
C16_BackoffBlocksOnlyThroughChannels ==
  InBackoff =>
    /\ (epc = "emit" /\ Len(dockerEventsChan) < ChanCap => ENABLED dockerEventSend)
    /\ (tpc = "recv" /\ dockerEventsChan # << >> => ENABLED eventTransformerRecv)
    /\ (tpc = "emit" /\ Len(riemannEventsChan) < ChanCap
          => ENABLED eventTransformerSend)
    /\ (hpc = "wait" /\ tickerC # None => ENABLED heartbeatStamp)
    /\ (hpc = "enq" /\ Len(riemannEventsChan) < ChanCap => ENABLED heartbeatSend)

\* The sender waits in a backoff while the transformer and the heartbeat
\* generator each hold a record and riemannEventsChan has room.
C16_Witness ==
  /\ InBackoff
  /\ tpc = "emit"
  /\ hpc = "enq"
  /\ Len(riemannEventsChan) < ChanCap

\* C17 as stated: a raw name that does not start with the separator is the
\* event's Name unchanged, wherever else the separator occurs in it.
C17_OnlyLeadingSeparatorStripped ==
  \A info \in InFlightInfos :
    (info.ContainerInfo.Name # Empty /\ Head(info.ContainerInfo.Name) # "/")
      => info.Name = info.ContainerInfo.Name

\* C19 as stated: once the pipeline is started with the heartbeat enabled and a
\* ttl above 0, the period is above 0 and below the ttl, and the ticker starts.
C19_PeriodPositiveBelowTtl ==
  (proc # "starting" /\ HeartbeatEnabled(hb) /\ flags.hbTtl > 0)
    => (interval > 0 /\ interval < flags.hbTtl /\ cause # "panic-ticker")

\* C18 as stated: whenever a send has failed and the sender is at its
\* re-enqueue, the re-enqueue eventually completes and the sender is back at
\* its receive (or the process has ended).
C18_RequeueCompletes ==
  (Running /\ spc = "requeue") ~> (spc = "recv" \/ proc = "dead")

\* C20: the sender dials only while it holds a dequeued record and no client;
\* a dial that succeeds is followed by the send of that same record, which is
\* the next record delivered or failed; every entry into connectToRiemann
\* starts with the attempt counter at 0 and the counter then counts the waits;
\* and outside connectToRiemann a send is made only with a client held.
C20_LazySingleConnection ==
  [][ /\ (dials' # dials /\ dials' # 0)
           => (spc = "connect" /\ cur # None /\ client = "nil" /\ dials' = dials + 1)
      /\ (client = "nil" /\ client' = "conn")
           => (spc = "connect" /\ spc' = "send" /\ cur # None /\ cur' = cur)
      /\ (spc \in {"connect", "backoff"})
           => (cur # None /\ client = "nil" /\ cur' = cur)
      /\ (spc = "recv" /\ spc' = "connect")
           => (client = "nil" /\ i' = 0 /\ cur' = Head(riemannEventsChan))
      /\ (spc = "recv" /\ spc' = "send") => client = "conn"
      /\ (spc = "backoff" /\ spc' = "connect") => i' = i + 1
      /\ (spc = "send") => (client = "conn" /\ cur # None)
      /\ (delivered' # delivered) => delivered' = Append(delivered, cur.gid)
      /\ (failLog' # failLog) => (failLog' = Append(failLog, cur.gid) /\ client' = "nil")
    ]_vars

\* The sender enters connectToRiemann a second time, after an episode with a
\* failed dial and a failed send, with the counter back at 0.
C20_Witness ==
  /\ Running
  /\ spc = "connect"
  /\ i = 0
  /\ dials = 0
  /\ failLog # << >>
  /\ dialFails >= 1

====
